---- MODULE Spec2Model ----
(***************************************************************************)
(* Structured real-coefficient / complex-sample dot product, AVX512-F      *)
(* build (src/src/dotprod/src/dotprod_crcf.avx512f.c).                     *)
(*                                                                         *)
(* Floats are modelled as integers (exact arithmetic): the properties      *)
(* checked are the mathematical ones, not the rounding of a summation      *)
(* order.  A complex array of n samples is the flat array of 2n reals the  *)
(* kernels obtain by casting _x to a float pointer: re, im, re, im, ...    *)
(* C arrays are 0-based; the sequences below are 1-based and every access  *)
(* goes through At(a, i), which takes the C index.                         *)
(***************************************************************************)
EXTENDS Integers, Sequences, FiniteSets, TLC

VARIABLES
    arg,     \* kernel specification: the count and pattern of the caller's arrays
    recs,    \* heap of struct dotprod_crcf_s records, by allocation identity
    bufs,    \* heap of 64-byte aligned coefficient buffers, by allocation identity
    made,    \* handles the caller holds |-> the (_h, _rev) each was created from
    fault,   \* "none", or "segv" once the process has written through NULL
    last     \* the last call: its name, arguments, return value and output

vars == <<arg, recs, bufs, made, fault, last>>

-----------------------------------------------------------------------------
(* Bounds of the model *)

\* the longest of the short coefficient arrays
MaxN == 2
\* lifecycle specification: objects alive at one time
MaxObjs == 2
\* number of coefficient / sample patterns the inputs are drawn from
NumPat == 2

-----------------------------------------------------------------------------
(* Program constants *)

\* dispatch threshold of dotprod_crcf_execute
Threshold == 128
\* floats in one __m512 register
Lanes == 16
\* lane masks of the two horizontal reductions (0x5555, 0xAAAA)
MaskRe == 21845
MaskIm == 43690
\* the null pointer
NULL == 0
\* contents of memory that malloc/_mm_malloc returned and nothing wrote yet
Uninit == -1000

\* the value liquid_error_config(...) yields: the configuration error
liquid_error_config == "LIQUID_EICONFIG"

LIQUID_OK == "LIQUID_OK"

-----------------------------------------------------------------------------
(* Inputs *)

\* a coefficient array _h of length n
HArr(p, n) == [i \in 1..n |-> ((i * i + p * i + p + 1) % 7) - 3]
\* a sample array _x of n complex values, as 2n reals
XArr(p, n) == [j \in 1..(2 * n) |-> ((j * j + 3 * p * j + p) % 11) - 5]

\* the patterns of the kernel specification, and the one of the lifecycle
Pats == 1..NumPat
OnePat == {1}

Around(c) == {c - 1, c, c + 1}
\* coefficient counts of the lifecycle specification
SmallN == 1..MaxN
\* coefficient counts of the kernel specification: the small ones, and the
\* neighbours of one narrow block (8 samples), one wide block (32 samples)
\* and the dispatch threshold
KernelN == (0..MaxN) \cup Around(Lanes \div 2) \cup Around(2 * Lanes)
                  \cup Around(Threshold)

\* element i (C index) of array a; memory outside the array reads as Uninit
At(a, i) == IF i + 1 \in DOMAIN a THEN a[i + 1] ELSE Uninit

-----------------------------------------------------------------------------
(* Scalar kernels *)

\* one statement r += _h[i] * _x[i]
Mac(r, _h, _x, i) ==
    <<r[1] + At(_h, i) * At(_x, 2 * i), r[2] + At(_h, i) * At(_x, 2 * i + 1)>>

\* the loop body of dotprod_crcf_run: lines 54-58
\*   r += _h[i] * _x[i], or under _MSC_VER  r = _FCmulcr(_x[i], _h[i])
run_step(cfg, _h, _x, i, r) ==
    IF cfg = "msc"
    THEN <<At(_x, 2 * i) * At(_h, i), At(_x, 2 * i + 1) * At(_h, i)>>
    ELSE Mac(r, _h, _x, i)

RECURSIVE run_loop(_, _, _, _, _)
\* line 53: for (i = 0; i < _n; i++), from the state k = [i, r]
run_loop(cfg, _h, _x, _n, k) ==
    IF k.i < _n
    THEN run_loop(cfg, _h, _x, _n,
                  [i |-> k.i + 1, r |-> run_step(cfg, _h, _x, k.i, k.r)])
    ELSE k

dotprod_crcf_run(cfg, _h, _x, _n) ==
    [y |-> run_loop(cfg, _h, _x, _n, [i |-> 0, r |-> <<0, 0>>]).r,
     status |-> LIQUID_OK]

\* lines 77-80: one group of 4
run4_group(_h, _x, i, r) ==
    Mac(Mac(Mac(Mac(r, _h, _x, i), _h, _x, i + 1), _h, _x, i + 2), _h, _x, i + 3)

RECURSIVE run4_groups(_, _, _, _)
\* line 76: for (i = 0; i < t; i += 4)
run4_groups(_h, _x, t, k) ==
    IF k.i < t
    THEN run4_groups(_h, _x, t, [i |-> k.i + 4, r |-> run4_group(_h, _x, k.i, k.r)])
    ELSE k

RECURSIVE run4_rest(_, _, _, _)
\* lines 84-85: for ( ; i < _n; i++), clean up remaining
run4_rest(_h, _x, _n, k) ==
    IF k.i < _n
    THEN run4_rest(_h, _x, _n, [i |-> k.i + 1, r |-> Mac(k.r, _h, _x, k.i)])
    ELSE k

dotprod_crcf_run4(_h, _x, _n) ==
    LET t == (_n \div 4) * 4
        k == run4_groups(_h, _x, t, [i |-> 0, r |-> <<0, 0>>])
    IN [y |-> run4_rest(_h, _x, _n, k).r, status |-> LIQUID_OK]

-----------------------------------------------------------------------------
(* Vector registers and intrinsics *)

LaneSet == 0..(Lanes - 1)

\* _mm512_setzero_ps
mm512_setzero == [l \in LaneSet |-> 0]
\* _mm512_loadu_ps(&a[i]) and _mm512_load_ps(&a[i]): 16 consecutive floats
mm512_load(a, i) == [l \in LaneSet |-> At(a, i + l)]
\* _mm512_mul_ps
mm512_mul(a, b) == [l \in LaneSet |-> a[l] * b[l]]
\* _mm512_add_ps
mm512_add(a, b) == [l \in LaneSet |-> a[l] + b[l]]

RECURSIVE Pow2(_)
Pow2(k) == IF k = 0 THEN 1 ELSE 2 * Pow2(k - 1)

\* bit l of a 16-bit lane mask
MaskBit(mask, l) == (mask \div Pow2(l)) % 2 = 1

RECURSIVE reduce_from(_, _, _)
reduce_from(mask, v, l) ==
    IF l = Lanes THEN 0
    ELSE (IF MaskBit(mask, l) THEN v[l] ELSE 0) + reduce_from(mask, v, l + 1)

\* _mm512_mask_reduce_add_ps(mask, v): the sum of the lanes the mask selects
mm512_mask_reduce_add(mask, v) == reduce_from(mask, v, 0)

\* the indices one 16-float load at &a[i] touches
Touched(i) == {i + l : l \in LaneSet}

-----------------------------------------------------------------------------
(* Vector kernels.  A kernel's state is                                    *)
(*   i, sum, w : the loop index, the accumulator register, the output pair *)
(*   blocks, cleanups : iterations of the blocked loop and of the cleanup  *)
(*   xr, hr : the indices read of the sample array and of q->h             *)

\* lines 236-240: s = v * h; sum = sum + s
MulAcc(sum, x, qh, i) == mm512_add(sum, mm512_mul(mm512_load(x, i), mm512_load(qh, i)))

RECURSIVE avx512f_blocks(_, _, _, _)
\* lines 229-241
avx512f_blocks(qh, x, t, k) ==
    IF k.i < t
    THEN avx512f_blocks(qh, x, t,
             [k EXCEPT !.i = @ + Lanes,
                       !.sum = MulAcc(@, x, qh, k.i),
                       !.blocks = @ + 1,
                       !.xr = @ \cup Touched(k.i),
                       !.hr = @ \cup Touched(k.i)])
    ELSE k

\* lines 247-248 and 315-316: fold down I/Q components
Fold(k) ==
    [k EXCEPT !.w = <<mm512_mask_reduce_add(MaskRe, k.sum),
                      mm512_mask_reduce_add(MaskIm, k.sum)>>]

RECURSIVE cleanup(_, _, _, _)
\* lines 251-254 and 319-322: cleanup, two floats a step
cleanup(qh, x, n, k) ==
    IF k.i < n
    THEN cleanup(qh, x, n,
             [k EXCEPT !.i = @ + 2,
                       !.w = <<@[1] + At(x, k.i) * At(qh, k.i),
                               @[2] + At(x, k.i + 1) * At(qh, k.i + 1)>>,
                       !.cleanups = @ + 1,
                       !.xr = @ \cup {k.i, k.i + 1},
                       !.hr = @ \cup {k.i, k.i + 1}])
    ELSE k

KernelStart ==
    [i |-> 0, sum |-> mm512_setzero, w |-> <<0, 0>>, blocks |-> 0,
     cleanups |-> 0, xr |-> {}, hr |-> {}]

\* what a kernel hands back: *_y, the return value, and the trace of its run
KernelOut(k) ==
    [y |-> k.w, status |-> LIQUID_OK, blocks |-> k.blocks,
     cleanups |-> k.cleanups, xr |-> k.xr, hr |-> k.hr]

\* faulty variant of the narrow kernel: the cleanup loop is left out
execute_avx512f_no_cleanup(qn, qh, x) ==
    LET n == 2 * qn
        t == (n \div Lanes) * Lanes
    IN KernelOut(Fold(avx512f_blocks(qh, x, t, KernelStart)))

\* faulty variant of the narrow kernel: the blocked loop tests i < t only
\* after its body (do ... while)
execute_avx512f_do_while(qn, qh, x) ==
    LET n == 2 * qn
        t == (n \div Lanes) * Lanes
        k0 == [KernelStart EXCEPT !.i = Lanes,
                                  !.sum = MulAcc(@, x, qh, 0),
                                  !.blocks = 1,
                                  !.xr = Touched(0),
                                  !.hr = Touched(0)]
        k1 == avx512f_blocks(qh, x, t, k0)
    IN KernelOut(cleanup(qh, x, n, Fold(k1)))

\* dotprod_crcf_execute_avx512f on an object with q->n = qn, q->h = qh
dotprod_crcf_execute_avx512f(qn, qh, x) ==
    LET n == 2 * qn
        t == (n \div Lanes) * Lanes
        k1 == avx512f_blocks(qh, x, t, KernelStart)
    IN KernelOut(cleanup(qh, x, n, Fold(k1)))

RECURSIVE avx512f4_blocks(_, _, _, _)
\* lines 285-309: four loads, four products, four additions into sum
avx512f4_blocks(qh, x, r, k) ==
    IF k.i < r
    THEN LET b == 4 * k.i
             s0 == MulAcc(k.sum, x, qh, b)
             s1 == MulAcc(s0, x, qh, b + Lanes)
             s2 == MulAcc(s1, x, qh, b + 2 * Lanes)
             s3 == MulAcc(s2, x, qh, b + 3 * Lanes)
             rd == Touched(b) \cup Touched(b + Lanes)
                   \cup Touched(b + 2 * Lanes) \cup Touched(b + 3 * Lanes)
         IN avx512f4_blocks(qh, x, r,
                [k EXCEPT !.i = @ + Lanes, !.sum = s3, !.blocks = @ + 1,
                          !.xr = @ \cup rd, !.hr = @ \cup rd])
    ELSE k

\* faulty variant of the wide kernel: the cleanup starts at i = r, not 4*r
execute_avx512f4_cleanup_at_r(qn, qh, x) ==
    LET n == 2 * qn
        r == (n \div (4 * Lanes)) * Lanes
        k1 == avx512f4_blocks(qh, x, r, KernelStart)
    IN KernelOut(cleanup(qh, x, n, [Fold(k1) EXCEPT !.i = r]))

\* dotprod_crcf_execute_avx512f4 on an object with q->n = qn, q->h = qh
dotprod_crcf_execute_avx512f4(qn, qh, x) ==
    LET n == 2 * qn
        r == (n \div (4 * Lanes)) * Lanes
        k1 == avx512f4_blocks(qh, x, r, KernelStart)
    IN KernelOut(cleanup(qh, x, n, [Fold(k1) EXCEPT !.i = 4 * r]))

\* dotprod_crcf_execute: switch based on size
dotprod_crcf_execute(qn, qh, x) ==
    IF qn < Threshold
    THEN dotprod_crcf_execute_avx512f(qn, qh, x)
    ELSE dotprod_crcf_execute_avx512f4(qn, qh, x)

-----------------------------------------------------------------------------
(* The heap.  A machine state m is                                         *)
(*   recs, bufs : the record slots and the buffer slots; a released slot   *)
(*                may be handed out again, as an address is                *)
(*   fault      : "segv" once an access went through NULL                  *)
(*   ret, err   : the pointer handed back and the error raised             *)
(*   log        : the allocations and releases of the call, in order       *)

Slots == 1..MaxObjs

FreeRec == [used |-> FALSE, n |-> Uninit, h |-> Uninit]
FreeBuf == [used |-> FALSE, data |-> <<>>]

\* the lowest free slot of a heap, NULL when there is none
Lowest(heap) ==
    IF \E s \in Slots : ~heap[s].used
    THEN CHOOSE s \in Slots : ~heap[s].used /\ \A t \in 1..(s - 1) : heap[t].used
    ELSE NULL

\* malloc(sizeof(struct dotprod_crcf_s)): a record with indeterminate fields
malloc(m, ok) ==
    LET s == Lowest(m.recs)
    IN IF ok /\ s # NULL
       THEN [m EXCEPT !.recs[s] = [used |-> TRUE, n |-> Uninit, h |-> Uninit],
                      !.ret = s, !.log = Append(@, <<"malloc", s>>)]
       ELSE [m EXCEPT !.ret = NULL]

\* _mm_malloc(len*sizeof(float), 64): len floats with indeterminate contents
mm_malloc(m, len, ok) ==
    LET s == Lowest(m.bufs)
    IN IF ok /\ s # NULL
       THEN [m EXCEPT !.bufs[s] = [used |-> TRUE, data |-> [j \in 1..len |-> Uninit]],
                      !.ret = s, !.log = Append(@, <<"mm_malloc", s>>)]
       ELSE [m EXCEPT !.ret = NULL]

\* _mm_free(p): releases the buffer; a null pointer is ignored
mm_free(m, p) ==
    IF p \in Slots
    THEN [m EXCEPT !.bufs[p] = FreeBuf, !.log = Append(@, <<"mm_free", p>>)]
    ELSE m

\* free(q): releases the record
free(m, q) ==
    IF q \in Slots
    THEN [m EXCEPT !.recs[q] = FreeRec, !.log = Append(@, <<"free", q>>)]
    ELSE m

\* an access through a null pointer or outside a block: the process is killed
Segv(m) == [m EXCEPT !.fault = "segv", !.ret = NULL]

\* the floats of the buffer p points to (none behind NULL)
Floats(m, p) == IF p \in Slots THEN m.bufs[p].data ELSE <<>>

\* q->h[j] = v
Store(m, p, j, v) ==
    IF p \notin Slots \/ j + 1 \notin DOMAIN m.bufs[p].data THEN Segv(m)
    ELSE [m EXCEPT !.bufs[p].data[j + 1] = v]

RECURSIVE set_coefficients_even_only(_, _, _, _, _)
\* faulty variant of the coefficient loop: q->h[2*i+1] is never written
set_coefficients_even_only(m, q, _h, _rev, i) ==
    IF m.fault = "none" /\ i < m.recs[q].n
    THEN LET k == IF _rev THEN m.recs[q].n - i - 1 ELSE i
         IN set_coefficients_even_only(Store(m, m.recs[q].h, 2 * i, At(_h, k)),
                                       q, _h, _rev, i + 1)
    ELSE m

RECURSIVE set_coefficients(_, _, _, _, _)
\* lines 114-118: set coefficients, repeated
set_coefficients(m, q, _h, _rev, i) ==
    IF m.fault = "none" /\ i < m.recs[q].n
    THEN LET k == IF _rev THEN m.recs[q].n - i - 1 ELSE i
             m1 == Store(m, m.recs[q].h, 2 * i, At(_h, k))
             m2 == IF m1.fault = "none"
                   THEN Store(m1, m1.recs[q].h, 2 * i + 1, At(_h, k))
                   ELSE m1
         IN set_coefficients(m2, q, _h, _rev, i + 1)
    ELSE m

\* dotprod_crcf_create_opt; oks says whether the two allocations succeed
dotprod_crcf_create_opt(m, _h, _n, _rev, oks) ==
    LET m1 == malloc(m, oks[1])
        q == m1.ret
    IN IF q = NULL
       THEN Segv(m1)
       ELSE LET m2 == [m1 EXCEPT !.recs[q].n = _n]
                m3 == mm_malloc(m2, 2 * m2.recs[q].n, oks[2])
                m4 == [m3 EXCEPT !.recs[q].h = m3.ret]
                m5 == set_coefficients(m4, q, _h, _rev, 0)
            IN IF m5.fault = "none" THEN [m5 EXCEPT !.ret = q] ELSE m5

dotprod_crcf_create(m, _h, _n, oks) == dotprod_crcf_create_opt(m, _h, _n, FALSE, oks)

\* faulty variant of create_rev: the _rev flag is passed as 0
create_rev_not_reversed(m, _h, _n, oks) == dotprod_crcf_create_opt(m, _h, _n, FALSE, oks)

dotprod_crcf_create_rev(m, _h, _n, oks) == dotprod_crcf_create_opt(m, _h, _n, TRUE, oks)

\* dotprod_crcf_destroy
dotprod_crcf_destroy(m, _q) ==
    [free(mm_free(m, m.recs[_q].h), _q) EXCEPT !.ret = NULL, !.err = LIQUID_OK]

\* faulty variant of recreate: the old object is not destroyed
recreate_without_destroy(m, _q, _h, _n, oks) == dotprod_crcf_create(m, _h, _n, oks)

\* dotprod_crcf_recreate: completely destroy and re-create
dotprod_crcf_recreate(m, _q, _h, _n, oks) ==
    dotprod_crcf_create(dotprod_crcf_destroy(m, _q), _h, _n, oks)

\* dotprod_crcf_recreate_rev
dotprod_crcf_recreate_rev(m, _q, _h, _n, oks) ==
    dotprod_crcf_create_rev(dotprod_crcf_destroy(m, _q), _h, _n, oks)

\* memmove(dst, src, len floats)
memmove(m, dst, src, len) ==
    IF len = 0 THEN m
    ELSE IF dst \notin Slots \/ src \notin Slots THEN Segv(m)
    ELSE [m EXCEPT !.bufs[dst].data =
              [c \in DOMAIN @ |-> IF c <= len THEN At(Floats(m, src), c - 1)
                                  ELSE @[c]]]

\* faulty variant of copy: the copy points to the buffer of the original
copy_shallow(m, q_orig, oks) ==
    IF q_orig = NULL
    THEN [m EXCEPT !.ret = NULL, !.err = liquid_error_config]
    ELSE LET m1 == malloc(m, oks[1])
             q_copy == m1.ret
         IN IF q_copy = NULL
            THEN Segv(m1)
            ELSE [m1 EXCEPT !.recs[q_copy] = [used |-> TRUE, n |-> m1.recs[q_orig].n,
                                              h |-> m1.recs[q_orig].h],
                            !.ret = q_copy]

\* faulty variant of copy: the input is not validated
copy_unchecked(m, q_orig, oks) ==
    LET m1 == malloc(m, oks[1])
        q_copy == m1.ret
    IN IF q_copy = NULL \/ q_orig = NULL
       THEN Segv(m1)
       ELSE LET m2 == [m1 EXCEPT !.recs[q_copy].n = m1.recs[q_orig].n]
                m3 == mm_malloc(m2, 2 * m2.recs[q_copy].n, oks[2])
                m4 == [m3 EXCEPT !.recs[q_copy].h = m3.ret]
                m5 == memmove(m4, m4.recs[q_copy].h, m4.recs[q_orig].h,
                              2 * m4.recs[q_orig].n)
            IN IF m5.fault = "none" THEN [m5 EXCEPT !.ret = q_copy] ELSE m5

\* dotprod_crcf_copy
dotprod_crcf_copy(m, q_orig, oks) ==
    IF q_orig = NULL
    THEN [m EXCEPT !.ret = NULL, !.err = liquid_error_config]
    ELSE LET m1 == malloc(m, oks[1])
             q_copy == m1.ret
         IN IF q_copy = NULL
            THEN Segv(m1)
            ELSE LET m2 == [m1 EXCEPT !.recs[q_copy].n = m1.recs[q_orig].n]
                     m3 == mm_malloc(m2, 2 * m2.recs[q_copy].n, oks[2])
                     m4 == [m3 EXCEPT !.recs[q_copy].h = m3.ret]
                     m5 == memmove(m4, m4.recs[q_copy].h, m4.recs[q_orig].h,
                                   2 * m4.recs[q_orig].n)
                 IN IF m5.fault = "none" THEN [m5 EXCEPT !.ret = q_copy] ELSE m5

RECURSIVE print_lines(_, _, _)
\* lines 190-191: one line per coefficient, skipping odd entries
print_lines(qn, qh, k) ==
    IF k.i < qn
    THEN print_lines(qn, qh, [i |-> k.i + 1, out |-> Append(k.out, At(qh, 2 * k.i))])
    ELSE k

\* dotprod_crcf_print: the count of the header line, then the lines
dotprod_crcf_print(qn, qh) ==
    [n |-> qn, lines |-> print_lines(qn, qh, [i |-> 0, out |-> <<>>]).out,
     status |-> LIQUID_OK]

-----------------------------------------------------------------------------
(* The caller: one action per function of the interface *)

\* the machine state the next call starts from
Mem ==
    [recs |-> recs, bufs |-> bufs, fault |-> fault, ret |-> NULL, err |-> LIQUID_OK,
     log |-> <<>>]

\* the builds of dotprod_crcf_run: with _MSC_VER defined ("msc") or not
Builds == {"std", "msc"}

\* the outcomes of the two allocations of one call
Oks == {<<TRUE, TRUE>>, <<TRUE, FALSE>>, <<FALSE, FALSE>>}

NoOut == [y |-> <<0, 0>>, status |-> "none", blocks |-> 0, cleanups |-> 0,
          xr |-> {}, hr |-> {}]

Call(op) ==
    [op |-> op, q |-> NULL, h |-> <<>>, n |-> 0, x |-> <<>>, oks |-> <<TRUE, TRUE>>,
     cfg |-> "std", ret |-> NULL, err |-> LIQUID_OK, out |-> NoOut, lines |-> <<>>,
     log |-> <<>>]

Handles == DOMAIN made

Drop(f, q) == [p \in (DOMAIN f) \ {q} |-> f[p]]

Commit(m) ==
    /\ recs' = m.recs
    /\ bufs' = m.bufs
    /\ fault' = m.fault
    /\ UNCHANGED arg

\* the handle a successful call returned is now held by the caller
Hold(f, m, origin) == IF m.fault = "none" /\ m.ret # NULL THEN (m.ret :> origin) @@ f ELSE f

CreateIn(NS, PS, cap) ==
    \E n \in NS : \E p \in PS : \E h \in {HArr(p, n)} : \E oks \in Oks :
        /\ fault = "none"
        /\ Cardinality(Handles) < cap
        /\ LET m == dotprod_crcf_create(Mem, h, n, oks)
           IN /\ Commit(m)
              /\ made' = Hold(made, m, [h |-> h, rev |-> FALSE])
              /\ last' = [Call("create") EXCEPT !.n = n, !.oks = oks, !.log = m.log,
                                                !.ret = m.ret, !.err = m.err]

CreateRevIn(NS, PS, cap) ==
    \E n \in NS : \E p \in PS : \E h \in {HArr(p, n)} : \E oks \in Oks :
        /\ fault = "none"
        /\ Cardinality(Handles) < cap
        /\ LET m == dotprod_crcf_create_rev(Mem, h, n, oks)
           IN /\ Commit(m)
              /\ made' = Hold(made, m, [h |-> h, rev |-> TRUE])
              /\ last' = [Call("create_rev") EXCEPT !.n = n, !.oks = oks, !.log = m.log,
                                                    !.ret = m.ret, !.err = m.err]

Recreate ==
    \E q \in Handles : \E n \in SmallN : \E h \in {HArr(1, n)} : \E oks \in Oks :
        /\ fault = "none"
        /\ LET m == dotprod_crcf_recreate(Mem, q, h, n, oks)
           IN /\ Commit(m)
              /\ made' = Hold(Drop(made, q), m, [h |-> h, rev |-> FALSE])
              /\ last' = [Call("recreate") EXCEPT !.q = q, !.n = n, !.log = m.log,
                              !.oks = oks, !.ret = m.ret, !.err = m.err]

RecreateRev ==
    \E q \in Handles : \E n \in SmallN : \E h \in {HArr(1, n)} : \E oks \in Oks :
        /\ fault = "none"
        /\ LET m == dotprod_crcf_recreate_rev(Mem, q, h, n, oks)
           IN /\ Commit(m)
              /\ made' = Hold(Drop(made, q), m, [h |-> h, rev |-> TRUE])
              /\ last' = [Call("recreate_rev") EXCEPT !.q = q, !.n = n, !.log = m.log,
                              !.oks = oks, !.ret = m.ret, !.err = m.err]

CopyIn(cap) ==
    \E q \in Handles \cup {NULL} : \E oks \in Oks :
        /\ fault = "none"
        /\ q = NULL \/ Cardinality(Handles) < cap
        /\ q = NULL => oks = <<TRUE, TRUE>>
        /\ LET m == dotprod_crcf_copy(Mem, q, oks)
           IN /\ Commit(m)
              /\ made' = IF q = NULL THEN made ELSE Hold(made, m, made[q])
              /\ last' = [Call("copy") EXCEPT !.q = q, !.oks = oks, !.log = m.log,
                                              !.ret = m.ret, !.err = m.err]

Destroy ==
    \E q \in Handles :
        /\ fault = "none"
        /\ LET m == dotprod_crcf_destroy(Mem, q)
           IN /\ Commit(m)
              /\ made' = Drop(made, q)
              /\ last' = [Call("destroy") EXCEPT !.q = q, !.ret = m.ret, !.err = m.err,
                                                 !.log = m.log]

\* q->n and the floats behind q->h, as a kernel sees them
N(q) == recs[q].n
H(q) == Floats(Mem, recs[q].h)

ExecuteIn(PS) ==
    \E q \in Handles : \E p \in PS : \E x \in {XArr(p, N(q))} :
        /\ fault = "none"
        /\ last' = [Call("execute") EXCEPT !.q = q, !.n = N(q), !.x = x,
                        !.out = dotprod_crcf_execute(N(q), H(q), x)]
        /\ UNCHANGED <<arg, recs, bufs, made, fault>>

ExecuteNarrowIn(PS) ==
    \E q \in Handles : \E p \in PS : \E x \in {XArr(p, N(q))} :
        /\ fault = "none"
        /\ last' = [Call("execute_avx512f") EXCEPT !.q = q, !.n = N(q), !.x = x,
                        !.out = dotprod_crcf_execute_avx512f(N(q), H(q), x)]
        /\ UNCHANGED <<arg, recs, bufs, made, fault>>

ExecuteWideIn(PS) ==
    \E q \in Handles : \E p \in PS : \E x \in {XArr(p, N(q))} :
        /\ fault = "none"
        /\ last' = [Call("execute_avx512f4") EXCEPT !.q = q, !.n = N(q), !.x = x,
                        !.out = dotprod_crcf_execute_avx512f4(N(q), H(q), x)]
        /\ UNCHANGED <<arg, recs, bufs, made, fault>>

Dump ==
    \E q \in Handles :
        /\ fault = "none"
        /\ last' = [Call("print") EXCEPT !.q = q, !.n = N(q),
                        !.lines = dotprod_crcf_print(N(q), H(q)).lines]
        /\ UNCHANGED <<arg, recs, bufs, made, fault>>

Run ==
    \E cfg \in Builds : \E n \in {arg.n} : \E h \in {HArr(arg.p, n)} :
    \E x \in {XArr(arg.p, n)} :
        /\ fault = "none"
        /\ LET o == dotprod_crcf_run(cfg, h, x, n)
           IN last' = [Call("run") EXCEPT !.cfg = cfg, !.h = h, !.n = n, !.x = x,
                           !.out = [NoOut EXCEPT !.y = o.y, !.status = o.status]]
        /\ UNCHANGED <<arg, recs, bufs, made, fault>>

Run4 ==
    \E n \in {arg.n} : \E h \in {HArr(arg.p, n)} : \E x \in {XArr(arg.p, n)} :
        /\ fault = "none"
        /\ LET o == dotprod_crcf_run4(h, x, n)
           IN last' = [Call("run4") EXCEPT !.h = h, !.n = n, !.x = x,
                           !.out = [NoOut EXCEPT !.y = o.y, !.status = o.status]]
        /\ UNCHANGED <<arg, recs, bufs, made, fault>>

Create == CreateIn(SmallN, OnePat, MaxObjs)
CreateRev == CreateRevIn(SmallN, OnePat, MaxObjs)
Copy == CopyIn(MaxObjs)
Execute == ExecuteIn(OnePat)
\* the kernel specification holds one object, and one copy of it
CreateK == CreateIn({arg.n}, {arg.p}, 1)
CreateRevK == CreateRevIn({arg.n}, {arg.p}, 1)
CopyK == CopyIn(2)
ExecuteK == ExecuteIn({arg.p})
ExecuteNarrow == ExecuteNarrowIn({arg.p})
ExecuteWide == ExecuteWideIn({arg.p})

\* no object yet
Start ==
    /\ recs = [s \in Slots |-> FreeRec]
    /\ bufs = [s \in Slots |-> FreeBuf]
    /\ made = <<>>
    /\ fault = "none"
    /\ last = Call("none")

Init == arg = [n |-> MaxN, p |-> 1] /\ Start

\* the caller's arrays: HArr(arg.p, arg.n) and XArr(arg.p, arg.n)
InitKernel == arg \in [n : KernelN, p : Pats] /\ Start

\* the lifecycle of the objects, on short coefficient arrays
Next ==
    \/ Create
    \/ CreateRev
    \/ Recreate
    \/ RecreateRev
    \/ Copy
    \/ Destroy
    \/ Execute
    \/ Dump

Spec == Init /\ [][Next]_vars

\* the kernels, on coefficient counts around the block sizes and the threshold
NextKernel ==
    \/ CreateK
    \/ CreateRevK
    \/ CopyK
    \/ Destroy
    \/ Dump
    \/ ExecuteK
    \/ ExecuteNarrow
    \/ ExecuteWide
    \/ Run
    \/ Run4

SpecKernel == InitKernel /\ [][NextKernel]_vars

-----------------------------------------------------------------------------
(* Reference values the claims are stated against *)

RECURSIVE DotPart(_, _, _, _, _)
\* sum over lo <= i < hi of h[i] * (component c of x[i]); c = 0 real, 1 imaginary
DotPart(h, x, lo, hi, c) ==
    IF hi <= lo THEN 0
    ELSE IF hi = lo + 1 THEN h[lo + 1] * x[2 * lo + c + 1]
    ELSE LET mid == (lo + hi) \div 2
         IN DotPart(h, x, lo, mid, c) + DotPart(h, x, mid, hi, c)

\* sum_{i=0}^{n-1} h[i]*x[i] as <<real part, imaginary part>>
Dot(h, x) == <<DotPart(h, x, 0, Len(h), 0), DotPart(h, x, 0, Len(h), 1)>>

\* reverse(h)[i] = h[n-1-i]
Reverse(h) == [i \in 1..Len(h) |-> h[Len(h) + 1 - i]]

\* a machine with nothing allocated
FreshMem ==
    [recs |-> [s \in Slots |-> FreeRec], bufs |-> [s \in Slots |-> FreeBuf],
     fault |-> "none", ret |-> NULL, err |-> LIQUID_OK, log |-> <<>>]

\* the floats of the object a call on machine m returned
Made(m) == Floats(m, m.recs[m.ret].h)

Returned == fault = "none" /\ last.ret # NULL

ExecOps == {"execute", "execute_avx512f", "execute_avx512f4"}

-----------------------------------------------------------------------------
(* Claims about the kernels, checked under SpecKernel *)

\* C1: dotprod_crcf_execute on an object made by dotprod_crcf_create(h, n), or
\* on a copy of one, writes to *_y the sum over i < n of h[i]*x[i] (real part
\* sum h[i]*Re(x[i]), imaginary part sum h[i]*Im(x[i])) and returns LIQUID_OK,
\* for n below and from the dispatch threshold, reading only x[0..2n-1].
C1_ExecuteIsDotProduct ==
    (last.op = "execute" /\ ~made[last.q].rev) =>
        /\ last.n = Len(made[last.q].h)
        /\ last.out.y = Dot(made[last.q].h, last.x)
        /\ last.out.status = LIQUID_OK
        /\ last.out.xr \subseteq 0..(2 * last.n - 1)

\* C1 witness: the dispatcher ran the wide kernel at the threshold, with a
\* non-zero result
C1_Witness ==
    /\ last.op = "execute"
    /\ ~made[last.q].rev
    /\ last.n = Threshold
    /\ last.out.blocks = (2 * Threshold) \div (4 * Lanes)
    /\ last.out.y[1] # 0
    /\ last.out.y[2] # 0

\* C2: the narrow kernel and the wide kernel return the same complex result
\* on every object and sample array, and so does the dispatcher, whichever
\* kernel it chooses.
C2_KernelsAgree ==
    /\ last.op = "execute_avx512f" =>
           last.out.y = dotprod_crcf_execute_avx512f4(last.n, H(last.q), last.x).y
    /\ last.op = "execute_avx512f4" =>
           last.out.y = dotprod_crcf_execute_avx512f(last.n, H(last.q), last.x).y
    /\ last.op = "execute" =>
           /\ last.out.y = dotprod_crcf_execute_avx512f(last.n, H(last.q), last.x).y
           /\ last.out.y = dotprod_crcf_execute_avx512f4(last.n, H(last.q), last.x).y

\* C2 witness: the narrow kernel called on n = 127 ran blocks and a cleanup
C2_Witness ==
    /\ last.op = "execute_avx512f"
    /\ last.n = Threshold - 1
    /\ last.out.blocks > 0
    /\ last.out.cleanups > 0
    /\ last.out.y # <<0, 0>>

\* C4: the object from dotprod_crcf_create_rev(h, n) has the buffer of the
\* object from dotprod_crcf_create(reverse(h), n), and executing it on x
\* gives sum reverse(h)[i]*x[i].
C4_CreateRevIsCreateOfReverse ==
    /\ (last.op = "create_rev" /\ Returned) =>
           LET m == dotprod_crcf_create(FreshMem, Reverse(made[last.ret].h),
                                        last.n, last.oks)
           IN /\ N(last.ret) = m.recs[m.ret].n
              /\ H(last.ret) = Made(m)
    /\ (last.op \in ExecOps /\ made[last.q].rev) =>
           last.out.y = Dot(Reverse(made[last.q].h), last.x)

\* C4 witness: a reversed object of a non-symmetric array was executed
C4_Witness ==
    /\ last.op = "execute"
    /\ made[last.q].rev
    /\ made[last.q].h # Reverse(made[last.q].h)
    /\ last.out.y # Dot(made[last.q].h, last.x)

\* C8: with n = 0 the dispatcher and both kernels run no iteration of the
\* blocked loop nor of the cleanup loop, read no element of the samples or of
\* the coefficient buffer, and return 0 + 0i with LIQUID_OK.
C8_EmptyObject ==
    (last.op \in ExecOps /\ last.n = 0) =>
        /\ last.out.blocks = 0
        /\ last.out.cleanups = 0
        /\ last.out.xr = {}
        /\ last.out.hr = {}
        /\ last.out.y = <<0, 0>>
        /\ last.out.status = LIQUID_OK

\* C8 witness: each of the three was called on an object with n = 0; here the
\* wide kernel, on an object whose buffer pointer is NULL
C8_Witness ==
    /\ last.op = "execute_avx512f4"
    /\ last.n = 0
    /\ recs[last.q].h = NULL

\* C10: dotprod_crcf_run writes sum h[i]*x[i] in every build, and
\* dotprod_crcf_run4 returns the same result.
C10_ScalarKernels ==
    (last.op \in {"run", "run4"}) =>
        /\ last.out.y = Dot(last.h, last.x)
        /\ last.out.status = LIQUID_OK

-----------------------------------------------------------------------------
(* Claims about the lifecycle of the objects, checked under Spec *)

LifecycleOps == {"create", "create_rev", "recreate", "recreate_rev", "copy"}

\* the index of the coefficient stored at positions 2k and 2k+1 of q's buffer
Source(q, k) == IF made[q].rev THEN N(q) - 1 - k ELSE k

\* the layout of one object against the array it was created from
Layout(q) ==
    /\ recs[q].used
    /\ N(q) = Len(made[q].h)
    /\ Len(H(q)) = 2 * N(q)
    /\ \A k \in 0..(N(q) - 1) :
           /\ H(q)[2 * k + 1] = made[q].h[Source(q, k) + 1]
           /\ H(q)[2 * k + 2] = made[q].h[Source(q, k) + 1]

\* C3: every object returned by create, create_rev, recreate, recreate_rev or
\* copy holds, from its return on and through every execute and print, a
\* buffer of exactly 2n entries with buffer[2k] = buffer[2k+1] = h[k'], where
\* k' = k for forward creation and k' = n-1-k for reversed creation.
C3_LayoutInvariant == \A q \in Handles : Layout(q)

\* C3 witness: a reversed object of the longest, non-symmetric array was
\* executed while every object slot was in use
C3_Witness ==
    /\ last.op = "execute"
    /\ made[last.q].rev
    /\ N(last.q) = MaxN
    /\ made[last.q].h # Reverse(made[last.q].h)
    /\ Cardinality(Handles) = MaxObjs

\* the object a successful copy returned, against the original
CopyIsDeep ==
    (last.op = "copy" /\ last.q # NULL /\ Returned) =>
        /\ last.ret # last.q
        /\ {last.ret, last.q} \subseteq Handles
        /\ N(last.ret) = N(last.q)
        /\ H(last.ret) = H(last.q)
        /\ Len(H(last.ret)) = 2 * N(last.q)
        /\ recs[last.ret].h # recs[last.q].h
        /\ last.log = <<<<"malloc", last.ret>>, <<"mm_malloc", recs[last.ret].h>>>>
        /\ \A p \in Pats :
               dotprod_crcf_execute(N(last.ret), H(last.ret), XArr(p, N(last.q))).y
                 = dotprod_crcf_execute(N(last.q), H(last.q), XArr(p, N(last.q))).y

\* no buffer belongs to two objects
NoSharedBuffer ==
    \A p, q \in Handles : (p # q /\ recs[p].h # NULL) => recs[p].h # recs[q].h

\* destroying or recreating q leaves every other object as it was
OthersUntouched ==
    \A p \in Handles \cap DOMAIN made' :
        (last'.op \in {"destroy", "recreate", "recreate_rev"} /\ p # last'.q) =>
            /\ recs'[p] = recs[p]
            /\ bufs'[recs[p].h] = bufs[recs[p].h]
            /\ made'[p] = made[p]

\* the array an object multiplies the samples by: the one it was created
\* from, reversed for a reversed creation
Effective(q) == IF made[q].rev THEN Reverse(made[q].h) ELSE made[q].h

\* at every moment execute on a live object gives the dot product with the
\* array the object was created from, whatever happened to the other objects
ExecuteOfOrigin ==
    \A q \in Handles : \A x \in {XArr(1, N(q))} :
        dotprod_crcf_execute(N(q), H(q), x).y = Dot(Effective(q), x)

\* C5: dotprod_crcf_copy of a non-null object returns a new object with the
\* same n and the same 2n floats in a freshly allocated buffer, execute gives
\* the same result on both, no two objects share a buffer, and destroying
\* or recreating one object leaves the n, the buffer and the origin of every
\* other object unchanged, so that its execute results, which at every moment
\* are the dot product with that origin, are unchanged too.
C5_CopyIsIndependent ==
    [](CopyIsDeep /\ NoSharedBuffer /\ ExecuteOfOrigin) /\ [][OthersUntouched]_vars

\* C5 witness: a reversed object of the longest array was copied
C5_Witness ==
    /\ last.op = "copy"
    /\ last.q # NULL
    /\ Returned
    /\ made[last.ret].rev
    /\ N(last.ret) = MaxN
    /\ H(last.ret) = H(last.q)

\* C6: when the record or the buffer cannot be allocated, create and copy
\* (and recreate, through create) return a failure value with an allocation
\* error, and write nothing through the failed allocation.
C6_AllocationFailureReported ==
    (last.op \in LifecycleOps /\ last.oks # <<TRUE, TRUE>>) =>
        /\ fault = "none"
        /\ last.ret = NULL
        /\ last.err \notin {LIQUID_OK, liquid_error_config}

\* the outcome of dotprod_crcf_copy(NULL)
CopyOfNull ==
    (last.op = "copy" /\ last.q = NULL) =>
        /\ fault = "none"
        /\ last.ret = NULL
        /\ last.err = liquid_error_config
        /\ last.log = <<>>

\* dotprod_crcf_copy(NULL) changes no record, no buffer and no object
CopyOfNullChangesNothing ==
    (last'.op = "copy" /\ last'.q = NULL) => UNCHANGED <<recs, bufs, made, fault>>

\* C7: dotprod_crcf_copy(NULL) returns the configuration error, allocates
\* neither a record nor a buffer, and leaves every existing object unchanged.
C7_CopyOfNullFails == []CopyOfNull /\ [][CopyOfNullChangesNothing]_vars

\* C7 witness: dotprod_crcf_copy(NULL) was called while objects existed
C7_Witness ==
    /\ last.op = "copy"
    /\ last.q = NULL
    /\ last.err = liquid_error_config
    /\ Handles # {}

\* every live object has its record and a buffer of 2n floats, none released
LiveObjects ==
    \A q \in Handles :
        /\ recs[q].used
        /\ recs[q].h \in Slots
        /\ bufs[recs[q].h].used
        /\ Len(bufs[recs[q].h].data) = 2 * recs[q].n

\* one call of recreate or recreate_rev on q
RecreateStep ==
    (last'.op \in {"recreate", "recreate_rev"}) =>
        /\ last'.q \in Handles
        /\ Len(last'.log) >= 2
        /\ last'.log[1] = <<"mm_free", recs[last'.q].h>>
        /\ last'.log[2] = <<"free", last'.q>>
        /\ \A i \in 3..Len(last'.log) : last'.log[i][1] \notin {"mm_free", "free"}
        /\ (fault' = "none" /\ last'.ret # NULL) =>
               LET q == last'.ret
                   m == IF last'.op = "recreate"
                        THEN dotprod_crcf_create(FreshMem, made'[q].h, last'.n, last'.oks)
                        ELSE dotprod_crcf_create_rev(FreshMem, made'[q].h, last'.n,
                                                     last'.oks)
               IN /\ recs'[q].n = last'.n
                  /\ Len(bufs'[recs'[q].h].data) = 2 * last'.n
                  /\ bufs'[recs'[q].h].data = Made(m)
                  /\ made'[q].rev = (last'.op = "recreate_rev")

\* C9: recreate and recreate_rev release the buffer and the record of q once
\* each, then return the object a fresh create / create_rev of (h, n) returns,
\* with the new n and 2n floats; at every moment every live object has a
\* record and an unreleased buffer of 2n floats.
C9_RecreateIsDestroyThenCreate == []LiveObjects /\ [][RecreateStep]_vars

\* C9 witness: an object was recreated, reversed, from the longest array,
\* while every object slot was in use
C9_Witness ==
    /\ last.op = "recreate_rev"
    /\ Returned
    /\ last.n = MaxN
    /\ N(last.ret) = MaxN
    /\ Len(last.log) = 4
    /\ Cardinality(Handles) = MaxObjs

====
